---- MODULE Spec2Model ----
(***************************************************************************)
(* RESTful OpenAPI generator of the ZenStack openapi plugin                *)
(* (packages/plugins/openapi/src/rest-generator.ts).                       *)
(*                                                                         *)
(* Strings are sequences of atoms (TLA+ strings), so that a template       *)
(* literal such as `update-${modelName}-put` is the concatenation the code *)
(* performs and two different templates can produce the same string.       *)
(* Every name of the input vocabulary has exactly one atom sequence.       *)
(* JavaScript objects are functions whose DOMAIN is the set of own keys.   *)
(***************************************************************************)
EXTENDS Integers, Sequences, FiniteSets, TLC

VARIABLES
    declarations,   \* this.model.declarations: the data models, in declaration order
    options,        \* this.options: prefix, modelNameMapping, securitySchemes
    dmmf,           \* this.dmmf.datamodel.models: model names, in order
    pc,             \* position inside generate()
    idx,            \* generatePaths: index of the next dmmf model of the for loop
    schemas,        \* components.schemas: component name -> schema
    paths,          \* the paths object: path key -> path item (method -> operation)
    warnings,       \* this.warnings
    rootSecurity,   \* generate: security, the root-level security (<<>> while undefined)
    error,          \* the error generate() has thrown (<<>> while none)
    output,         \* the document written to the output file (<<>> until written)
    returned        \* what the function called has returned (<<>> before)

vars ==
    <<declarations, options, dmmf, pc, idx, schemas, paths, warnings, rootSecurity, error, output,
      returned>>

----------------------------------------------------------------------------
(* Bounds of the model *)

\* relation fields a data model of the document-level specifications declares at most
MaxRelFields == 1

\* fields of the data model handed to generateFilterParameters at most
MaxFields == 3

----------------------------------------------------------------------------
(* Strings and JavaScript values *)

\* model names of the input vocabulary
User == <<"U", "ser">>
Post == <<"P", "ost">>

\* the enums of the input schema
Role == <<"R", "ole">>
Status == <<"S", "tatus">>

ToLowerCase(c) ==
    CASE c = "U" -> "u"
      [] c = "P" -> "p"
      [] c = "M" -> "m"
      [] c = "R" -> "r"
      [] c = "S" -> "s"
      [] OTHER -> c

lowerCaseFirst(s) == IF s = <<>> THEN s ELSE <<ToLowerCase(Head(s))>> \o Tail(s)

\* a JavaScript value as far as `??` and the truthiness test of `?:` see it
JsUndefined == [tag |-> "undefined", bool |-> FALSE, items |-> <<>>]
JsBoolean(b) == [tag |-> "boolean", bool |-> b, items |-> <<>>]
JsObject(items) == [tag |-> "object", bool |-> FALSE, items |-> items]

\* a ?? b
Nullish(a, b) == IF a.tag = "undefined" THEN b ELSE a

\* the condition of `c ? x : y`: every object (also [] and {}) is truthy
Truthy(v) == v.tag = "object" \/ (v.tag = "boolean" /\ v.bool)

\* an optional value: <<>> is undefined, <<v>> is v
Undefined == <<>>
Some(v) == <<v>>

\* o[k] = v on a JavaScript object
Put(o, k, v) == [x \in DOMAIN o \cup {k} |-> IF x = k THEN v ELSE o[x]]

\* { ...a, ...b }
Spread(a, b) == [x \in DOMAIN a \cup DOMAIN b |-> IF x \in DOMAIN b THEN b[x] ELSE a[x]]

EmptyObject == [x \in {} |-> <<>>]

Range(s) == {s[i] : i \in DOMAIN s}

RECURSIVE Flatten(_)
Flatten(ss) == IF ss = <<>> THEN <<>> ELSE Head(ss) \o Flatten(Tail(ss))

----------------------------------------------------------------------------
(* The input schema: fields and data models *)

\* a DataModelField: type is field.type.type (a primitive kind, "" for a reference),
\* refKind/ref are field.type.reference?.ref (an enum, a data model or a type def)
Field(name, type, refKind, ref, array, optional, isId, isFK, hasDefault) ==
    [name |-> name, type |-> type, refKind |-> refKind, ref |-> ref, array |-> array,
     optional |-> optional, isId |-> isId, isFK |-> isFK, hasDefault |-> hasDefault]

Scalar(name, type) == Field(name, type, "none", <<>>, FALSE, FALSE, FALSE, FALSE, FALSE)
IdField(name, type, hasDefault) ==
    Field(name, type, "none", <<>>, FALSE, FALSE, TRUE, FALSE, hasDefault)
EnumField(name, enum) == Field(name, "", "enum", enum, FALSE, FALSE, FALSE, FALSE, TRUE)
ForeignKey(name, optional) ==
    Field(name, "String", "none", <<>>, FALSE, optional, FALSE, TRUE, FALSE)
Relation(name, target, array, optional) ==
    Field(name, "", "model", target, array, optional, FALSE, FALSE, FALSE)

isIdField(f) == f.isId
isForeignKeyField(f) == f.isFK
isEnum(f) == f.refKind = "enum"
isDataModel(f) == f.refKind = "model"
isTypeDef(f) == f.refKind = "typedef"
isRelationshipField(f) == isDataModel(f)

----------------------------------------------------------------------------
(* Schema fragments, references and query parameters *)

\* an OpenAPI schema fragment: type/format of the base schema, ref the component a
\* $ref points to (<<>> when it is no reference), and the nullable / array wrappers
Schema(type, format) ==
    [type |-> type, format |-> format, ref |-> <<>>, nullable |-> FALSE, array |-> FALSE]

\* { $ref: `#/components/schemas/${type}` }
ref(type) == [type |-> "", format |-> "", ref |-> type, nullable |-> FALSE, array |-> FALSE]

wrapArray(schema, array) == IF array THEN [schema EXCEPT !.array = TRUE] ELSE schema

wrapNullable(schema, isNullable) ==
    IF isNullable THEN [schema EXCEPT !.nullable = TRUE] ELSE schema

fieldTypeToOpenAPISchema(f) ==
    CASE f.type = "String" -> Schema("string", "")
      [] f.type \in {"Int", "BigInt"} -> Schema("integer", "")
      [] f.type = "Float" -> Schema("number", "")
      [] f.type = "Decimal" -> Schema("oneOf(number,string)", "")
      [] f.type = "Boolean" -> Schema("boolean", "")
      [] f.type = "DateTime" -> Schema("string", "date-time")
      [] f.type = "Bytes" -> Schema("string", "byte")
      [] f.type = "Json" -> Schema("", "")
      [] OTHER -> ref(f.ref)

generateField(f) == wrapArray(wrapNullable(fieldTypeToOpenAPISchema(f), f.optional), f.array)

\* an element of an operation's parameters: a reference to a shared parameter
\* ({ $ref: `#/components/parameters/${type}` }) or an inline query parameter
parameter(type) ==
    [ref |-> type, name |-> <<>>, description |-> <<>>, schema |-> Schema("", "")]

makeFilterParameter(field, name, description, array, schemaOverride) ==
    LET schema ==
            IF schemaOverride # Undefined THEN schemaOverride[1]
            ELSE IF isEnum(field) THEN ref(field.ref)
            ELSE IF isDataModel(field) THEN Schema("string", "")
            ELSE IF isTypeDef(field) \/ field.type = "Json" THEN Schema("string", "json")
            ELSE fieldTypeToOpenAPISchema(field)
    IN [ref |-> "",
        name |-> IF name = <<"id">> THEN <<"filter[", "id", "]">>
                 ELSE <<"filter[">> \o field.name \o name \o <<"]">>,
        description |-> IF name = <<"id">> THEN <<description>>
                        ELSE <<description, " for \"">> \o field.name \o <<"\"">>,
        schema |-> wrapArray(schema, array)]

\* the collection filters of an array field
CollectionFilters(field) ==
    <<makeFilterParameter(field, <<"$has">>, "Collection contains filter", FALSE, Undefined),
      makeFilterParameter(field, <<"$hasEvery">>, "Collection contains-all filter",
                          TRUE, Undefined),
      makeFilterParameter(field, <<"$hasSome">>, "Collection contains-any filter",
                          TRUE, Undefined),
      makeFilterParameter(field, <<"$isEmpty">>, "Collection is empty filter",
                          FALSE, Some(Schema("boolean", "")))>>

\* comparison filters that leave DateTime fields out
ComparisonFiltersWithoutDateTime(field) ==
    IF field.type \in {"Int", "BigInt", "Float", "Decimal"}
    THEN <<makeFilterParameter(field, <<"$lt">>, "Less-than filter", FALSE, Undefined),
           makeFilterParameter(field, <<"$lte">>, "Less-than or equal filter",
                               FALSE, Undefined),
           makeFilterParameter(field, <<"$gt">>, "Greater-than filter", FALSE, Undefined),
           makeFilterParameter(field, <<"$gte">>, "Greater-than or equal filter",
                               FALSE, Undefined)>>
    ELSE <<>>

\* the comparison filters of a field that is no array
ComparisonFilters(field) ==
    IF field.type \in {"Int", "BigInt", "Float", "Decimal", "DateTime"}
    THEN <<makeFilterParameter(field, <<"$lt">>, "Less-than filter", FALSE, Undefined),
           makeFilterParameter(field, <<"$lte">>, "Less-than or equal filter",
                               FALSE, Undefined),
           makeFilterParameter(field, <<"$gt">>, "Greater-than filter", FALSE, Undefined),
           makeFilterParameter(field, <<"$gte">>, "Greater-than or equal filter",
                               FALSE, Undefined)>>
    ELSE <<>>

\* the string filters of a field that is no array
StringFilters(field) ==
    IF field.type = "String"
    THEN <<makeFilterParameter(field, <<"$contains">>, "String contains filter",
                               FALSE, Undefined),
           makeFilterParameter(field, <<"$icontains">>,
                               "String case-insensitive contains filter", FALSE, Undefined),
           makeFilterParameter(field, <<"$search">>, "String full-text search filter",
                               FALSE, Undefined),
           makeFilterParameter(field, <<"$startsWith">>, "String startsWith filter",
                               FALSE, Undefined),
           makeFilterParameter(field, <<"$endsWith">>, "String endsWith filter",
                               FALSE, Undefined)>>
    ELSE <<>>

\* the equality filter of a field and the operator filters that follow it
FieldFilters(field) ==
    <<makeFilterParameter(field, <<>>, "Equality filter", field.array, Undefined)>> \o
    (IF isRelationshipField(field) THEN <<>>
     ELSE IF field.array THEN CollectionFilters(field)
     ELSE ComparisonFilters(field) \o StringFilters(field))

\* a loop body that looks for the identifier before it looks for foreign keys
FilterParametersIdFirst(field, hasMultipleIds) ==
    IF isIdField(field) /\ ~hasMultipleIds
    THEN <<makeFilterParameter(field, <<"id">>, "Id filter", FALSE, Undefined)>>
    ELSE IF isForeignKeyField(field) THEN <<>>
    ELSE FieldFilters(field)

\* a loop body that does not skip foreign keys
FilterParametersWithForeignKeys(field, hasMultipleIds) ==
    IF isIdField(field) /\ ~hasMultipleIds
    THEN <<makeFilterParameter(field, <<"id">>, "Id filter", FALSE, Undefined)>>
    ELSE FieldFilters(field)

\* the parameters one iteration of the loop of generateFilterParameters pushes
FilterParametersOfField(field, hasMultipleIds) ==
    IF isForeignKeyField(field) THEN <<>>
    ELSE IF isIdField(field) /\ ~hasMultipleIds
    THEN <<makeFilterParameter(field, <<"id">>, "Id filter", FALSE, Undefined)>>
    ELSE FieldFilters(field)

generateFilterParameters(model) ==
    LET hasMultipleIds == Cardinality({i \in DOMAIN model.fields : isIdField(model.fields[i])}) > 1
    IN Flatten([i \in DOMAIN model.fields |->
                    FilterParametersOfField(model.fields[i], hasMultipleIds)])

----------------------------------------------------------------------------
(* Operations *)

\* a DataModel declaration with what the external services say about it:
\* ignored (the inclusion filter), meta (getModelResourceMeta, Undefined or
\* Some([security, tagDescription])) and policies (analyzePolicies)
DataModel(name, fields, ignored, meta, policies) ==
    [name |-> name, fields |-> fields, ignored |-> ignored, meta |-> meta,
     policies |-> policies]

getModelResourceMeta(zmodel) == zmodel.meta
analyzePolicies(zmodel) == zmodel.policies

\* resourceMeta?.security
MetaSecurity(resourceMeta) ==
    IF resourceMeta = Undefined THEN JsUndefined ELSE resourceMeta[1].security

\* a security expression that takes an empty override ([] or {}) for no override
SecurityEmptyOverrideIsFalsy(resourceMeta, policy) ==
    IF \/ (MetaSecurity(resourceMeta).tag = "object" /\ MetaSecurity(resourceMeta).items # <<>>)
       \/ (MetaSecurity(resourceMeta).tag # "object" /\ policy = TRUE)
    THEN Some(<<>>) ELSE Undefined

\* resourceMeta?.security ?? policy === true ? [] : undefined, which JavaScript
\* parses as (resourceMeta?.security ?? (policy === true)) ? [] : undefined
Security(resourceMeta, policy) ==
    IF Truthy(Nullish(MetaSecurity(resourceMeta), JsBoolean(policy = TRUE)))
    THEN Some(<<>>) ELSE Undefined

\* the response objects: the name of the component the body refers to
success(responseComponent) == responseComponent
forbidden == <<"_errorResponse">>
notFound == <<"_errorResponse">>
validationError == <<"_errorResponse">>
NoContent == <<>>

Operation(operationId, description, tags, parameters, requestBody, responses, security) ==
    [operationId |-> operationId, description |-> description, tags |-> tags,
     parameters |-> parameters, requestBody |-> requestBody, responses |-> responses,
     security |-> security]

makeResourceList(model, policies, resourceMeta) ==
    Operation(<<"list", "-">> \o model.name,
              <<"List \"">> \o model.name \o <<"\" resources">>,
              <<lowerCaseFirst(model.name)>>,
              <<parameter("include"), parameter("sort"), parameter("page-offset"),
                parameter("page-limit")>> \o generateFilterParameters(model),
              Undefined,
              [c \in {"200", "403"} |->
                  IF c = "200" THEN success(model.name \o <<"ListResponse">>) ELSE forbidden],
              Security(resourceMeta, policies.read))

\* a create operation whose request body names a schema no component defines
makeResourceCreateUnknownRequest(model, policies, resourceMeta) ==
    Operation(<<"create", "-">> \o model.name,
              <<"Create a \"">> \o model.name \o <<"\" resource">>,
              <<lowerCaseFirst(model.name)>>,
              <<>>,
              Some(model.name \o <<"Request">>),
              [c \in {"201", "403", "422"} |->
                  CASE c = "201" -> success(model.name \o <<"Response">>)
                    [] c = "403" -> forbidden
                    [] OTHER -> validationError],
              Security(resourceMeta, policies.create))

makeResourceCreate(model, policies, resourceMeta) ==
    Operation(<<"create", "-">> \o model.name,
              <<"Create a \"">> \o model.name \o <<"\" resource">>,
              <<lowerCaseFirst(model.name)>>,
              <<>>,
              Some(model.name \o <<"CreateRequest">>),
              [c \in {"201", "403", "422"} |->
                  CASE c = "201" -> success(model.name \o <<"Response">>)
                    [] c = "403" -> forbidden
                    [] OTHER -> validationError],
              Security(resourceMeta, policies.create))

makeResourceFetch(model, policies, resourceMeta) ==
    Operation(<<"fetch", "-">> \o model.name,
              <<"Fetch a \"">> \o model.name \o <<"\" resource">>,
              <<lowerCaseFirst(model.name)>>,
              <<parameter("id"), parameter("include")>>,
              Undefined,
              [c \in {"200", "403", "404"} |->
                  CASE c = "200" -> success(model.name \o <<"Response">>)
                    [] c = "403" -> forbidden
                    [] OTHER -> notFound],
              Security(resourceMeta, policies.read))

\* a related fetch that asks the policies of the owning model
makeRelatedFetchOwningPolicies(model, field, relationDecl, resourceMeta) ==
    LET policies == analyzePolicies(model)
    IN Operation(<<"fetch", "-">> \o model.name \o <<"-", "related", "-">> \o field.name,
                 <<"Fetch the related \"">> \o field.name \o <<"\" resource for \"">>
                     \o model.name \o <<"\"">>,
                 <<lowerCaseFirst(model.name)>>,
                 <<parameter("id"), parameter("include")>> \o
                     (IF field.array
                      THEN <<parameter("sort"), parameter("page-offset"),
                             parameter("page-limit")>> \o generateFilterParameters(model)
                      ELSE <<>>),
                 Undefined,
                 [c \in {"200", "403", "404"} |->
                     CASE c = "200" ->
                            success(IF field.array THEN relationDecl.name \o <<"ListResponse">>
                                    ELSE relationDecl.name \o <<"Response">>)
                       [] c = "403" -> forbidden
                       [] OTHER -> notFound],
                 Security(resourceMeta, policies.read))

makeRelatedFetch(model, field, relationDecl, resourceMeta) ==
    LET policies == analyzePolicies(relationDecl)
    IN Operation(<<"fetch", "-">> \o model.name \o <<"-", "related", "-">> \o field.name,
                 <<"Fetch the related \"">> \o field.name \o <<"\" resource for \"">>
                     \o model.name \o <<"\"">>,
                 <<lowerCaseFirst(model.name)>>,
                 <<parameter("id"), parameter("include")>> \o
                     (IF field.array
                      THEN <<parameter("sort"), parameter("page-offset"),
                             parameter("page-limit")>> \o generateFilterParameters(model)
                      ELSE <<>>),
                 Undefined,
                 [c \in {"200", "403", "404"} |->
                     CASE c = "200" ->
                            success(IF field.array THEN relationDecl.name \o <<"ListResponse">>
                                    ELSE relationDecl.name \o <<"Response">>)
                       [] c = "403" -> forbidden
                       [] OTHER -> notFound],
                 Security(resourceMeta, policies.read))

makeResourceUpdate(model, policies, operationId, resourceMeta) ==
    Operation(operationId,
              <<"Update a \"">> \o model.name \o <<"\" resource">>,
              <<lowerCaseFirst(model.name)>>,
              <<parameter("id")>>,
              Some(model.name \o <<"UpdateRequest">>),
              [c \in {"200", "403", "404", "422"} |->
                  CASE c = "200" -> success(model.name \o <<"Response">>)
                    [] c = "403" -> forbidden
                    [] c = "404" -> notFound
                    [] OTHER -> validationError],
              Security(resourceMeta, policies.update))

\* a delete operation without a tag
makeResourceDeleteUntagged(model, policies, resourceMeta) ==
    Operation(<<"delete", "-">> \o model.name,
              <<"Delete a \"">> \o model.name \o <<"\" resource">>,
              <<>>,
              <<parameter("id")>>,
              Undefined,
              [c \in {"200", "403", "404"} |->
                  CASE c = "200" -> success(NoContent)
                    [] c = "403" -> forbidden
                    [] OTHER -> notFound],
              Security(resourceMeta, policies.delete))

makeResourceDelete(model, policies, resourceMeta) ==
    Operation(<<"delete", "-">> \o model.name,
              <<"Delete a \"">> \o model.name \o <<"\" resource">>,
              <<lowerCaseFirst(model.name)>>,
              <<parameter("id")>>,
              Undefined,
              [c \in {"200", "403", "404"} |->
                  CASE c = "200" -> success(NoContent)
                    [] c = "403" -> forbidden
                    [] OTHER -> notFound],
              Security(resourceMeta, policies.delete))

makeRelationshipFetch(model, field, policies, resourceMeta) ==
    Operation(<<"fetch", "-">> \o model.name \o <<"-", "relationship", "-">> \o field.name,
              <<"Fetch the \"">> \o field.name \o <<"\" relationships for a \"">>
                  \o model.name \o <<"\"">>,
              <<lowerCaseFirst(model.name)>>,
              <<parameter("id")>> \o
                  (IF field.array
                   THEN <<parameter("sort"), parameter("page-offset"),
                          parameter("page-limit")>> \o generateFilterParameters(model)
                   ELSE <<>>),
              Undefined,
              [c \in {"200", "403", "404"} |->
                  CASE c = "200" ->
                         (IF field.array THEN success(<<"_toManyRelationshipResponse">>)
                          ELSE success(<<"_toOneRelationshipResponse">>))
                    [] c = "403" -> forbidden
                    [] OTHER -> notFound],
              Security(resourceMeta, policies.read))

makeRelationshipCreate(model, field, policies, resourceMeta) ==
    Operation(<<"create", "-">> \o model.name \o <<"-", "relationship", "-">> \o field.name,
              <<"Create new \"">> \o field.name \o <<"\" relationships for a \"">>
                  \o model.name \o <<"\"">>,
              <<lowerCaseFirst(model.name)>>,
              <<parameter("id")>>,
              Some(<<"_toManyRelationshipRequest">>),
              [c \in {"200", "403", "404"} |->
                  CASE c = "200" -> success(<<"_toManyRelationshipResponse">>)
                    [] c = "403" -> forbidden
                    [] OTHER -> notFound],
              Security(resourceMeta, policies.update))

makeRelationshipUpdate(model, field, policies, operationId, resourceMeta) ==
    Operation(operationId,
              <<"Update \"">> \o field.name
                  \o <<IF field.array THEN "\" relationships for a \""
                       ELSE "\" relationship for a \"">>
                  \o model.name \o <<"\"">>,
              <<lowerCaseFirst(model.name)>>,
              <<parameter("id")>>,
              Some(IF field.array THEN <<"_toManyRelationshipRequest">>
                   ELSE <<"_toOneRelationshipRequest">>),
              [c \in {"200", "403", "404"} |->
                  CASE c = "200" ->
                         (IF field.array THEN success(<<"_toManyRelationshipResponse">>)
                          ELSE success(<<"_toOneRelationshipResponse">>))
                    [] c = "403" -> forbidden
                    [] OTHER -> notFound],
              Security(resourceMeta, policies.update))

----------------------------------------------------------------------------
(* Paths *)

\* this.modelNameMapping[modelName] ?? modelName
mapModelName(modelNameMapping, modelName) ==
    IF modelName \in DOMAIN modelNameMapping THEN modelNameMapping[modelName] ELSE modelName

\* a prefix that keeps its trailing slash
PathPrefixUnstripped(prefix) == prefix

\* getOption('prefix', '') with its trailing slash cut off
PathPrefix(prefix) ==
    IF prefix # <<>> /\ prefix[Len(prefix)] = "/" THEN SubSeq(prefix, 1, Len(prefix) - 1)
    ELSE prefix

\* field.type.reference?.ref of a relationship field
RelationDecl(decls, field) == CHOOSE d \in Range(decls) : d.name = field.ref

\* result[key], or the {} the code stores there first
Container(result, key) == IF key \in DOMAIN result THEN result[key] ELSE EmptyObject

\* a collection path item whose create operation asks the read policy
CollectionItemReadPolicy(zmodel, policies, resourceMeta) ==
    [m \in {"get", "post"} |->
        IF m = "get" THEN makeResourceList(zmodel, policies, resourceMeta)
        ELSE makeResourceCreate(zmodel, [policies EXCEPT !.create = policies.read],
                                resourceMeta)]

\* the collection path item: GET /resource, POST /resource
CollectionItem(zmodel, policies, resourceMeta) ==
    [m \in {"get", "post"} |->
        IF m = "get" THEN makeResourceList(zmodel, policies, resourceMeta)
        ELSE makeResourceCreate(zmodel, policies, resourceMeta)]

\* an item path item that lacks the PUT update
ResourceItemWithoutPut(zmodel, policies, modelName, resourceMeta) ==
    [m \in {"get", "patch", "delete"} |->
        CASE m = "get" -> makeResourceFetch(zmodel, policies, resourceMeta)
          [] m = "patch" ->
               makeResourceUpdate(zmodel, policies,
                                  <<"update", "-">> \o modelName \o <<"-", "patch">>,
                                  resourceMeta)
          [] OTHER -> makeResourceDelete(zmodel, policies, resourceMeta)]

\* the item path item: GET, PUT, PATCH, DELETE /resource/{id}
ResourceItem(zmodel, policies, modelName, resourceMeta) ==
    [m \in {"get", "put", "patch", "delete"} |->
        CASE m = "get" -> makeResourceFetch(zmodel, policies, resourceMeta)
          [] m = "put" ->
               makeResourceUpdate(zmodel, policies,
                                  <<"update", "-">> \o modelName \o <<"-", "put">>,
                                  resourceMeta)
          [] m = "patch" ->
               makeResourceUpdate(zmodel, policies,
                                  <<"update", "-">> \o modelName \o <<"-", "patch">>,
                                  resourceMeta)
          [] OTHER -> makeResourceDelete(zmodel, policies, resourceMeta)]

\* a relationships path that gets its POST whatever the cardinality of the field
RelationshipItemAlwaysPost(container, model, zmodel, field, policies, resourceMeta) ==
    LET update(suffix) ==
            makeRelationshipUpdate(zmodel, field, policies,
                <<"update", "-">> \o model.name \o <<"-", "relationship", "-">>
                    \o field.name \o <<"-", suffix>>,
                resourceMeta)
    IN Put(Put(Put(Put(container, "get",
                       makeRelationshipFetch(zmodel, field, policies, resourceMeta)),
                   "put", update("put")),
               "patch", update("patch")),
           "post", makeRelationshipCreate(zmodel, field, policies, resourceMeta))

\* the operations the loop body stores in the container of the relationships path
RelationshipItem(container, model, zmodel, field, policies, resourceMeta) ==
    LET c1 == Put(container, "get",
                  makeRelationshipFetch(zmodel, field, policies, resourceMeta))
        c2 == Put(c1, "put",
                  makeRelationshipUpdate(zmodel, field, policies,
                      <<"update", "-">> \o model.name \o <<"-", "relationship", "-">>
                          \o field.name \o <<"-", "put">>,
                      resourceMeta))
        c3 == Put(c2, "patch",
                  makeRelationshipUpdate(zmodel, field, policies,
                      <<"update", "-">> \o model.name \o <<"-", "relationship", "-">>
                          \o field.name \o <<"-", "patch">>,
                      resourceMeta))
    IN IF field.array
       THEN Put(c3, "post", makeRelationshipCreate(zmodel, field, policies, resourceMeta))
       ELSE c3

\* the loop over zmodel.fields, from field i on
RECURSIVE RelationLoop(_, _, _, _, _, _)
RelationLoop(result, base, model, zmodel, decls, i) ==
    IF i > Len(zmodel.fields) THEN result
    ELSE LET field == zmodel.fields[i]
             policies == analyzePolicies(zmodel)
             resourceMeta == getModelResourceMeta(zmodel)
             relatedDataPath == base \o <<"/", "{id}", "/">> \o field.name
             relationshipPath == base \o <<"/", "{id}", "/", "relationships", "/">> \o field.name
             r1 == Put(result, relatedDataPath,
                       Put(Container(result, relatedDataPath), "get",
                           makeRelatedFetch(zmodel, field, RelationDecl(decls, field),
                                            resourceMeta)))
             r2 == Put(r1, relationshipPath,
                       RelationshipItem(Container(r1, relationshipPath), model, zmodel,
                                        field, policies, resourceMeta))
         IN IF ~isDataModel(field) THEN RelationLoop(result, base, model, zmodel, decls, i + 1)
            ELSE RelationLoop(r2, base, model, zmodel, decls, i + 1)

\* model is the DMMF model (its name), zmodel the declaration of the same name
generatePathsForModel(model, zmodel, opts, decls) ==
    LET policies == analyzePolicies(zmodel)
        resourceMeta == getModelResourceMeta(zmodel)
        modelName == mapModelName(opts.modelNameMapping, model.name)
        base == PathPrefix(opts.prefix) \o <<"/">> \o lowerCaseFirst(modelName)
        r1 == Put(EmptyObject, base, CollectionItem(zmodel, policies, resourceMeta))
        r2 == Put(r1, base \o <<"/", "{id}">>,
                  ResourceItem(zmodel, policies, modelName, resourceMeta))
    IN RelationLoop(r2, base, model, zmodel, decls, 1)

\* this.includedModels: the data models the inclusion filter keeps
includedModels(decls) == SelectSeq(decls, LAMBDA d : ~d.ignored)

\* a model that passes whatever the inclusion filter says
IsIncludedAlways(decls, name) == TRUE

\* includeModelNames.includes(model.name)
IsIncluded(decls, name) == name \in {d.name : d \in Range(includedModels(decls))}

\* declarations.find((d) => isDataModel(d) && d.name === name): <<>> when none
FindDataModel(decls, name) ==
    LET found == SelectSeq(decls, LAMBDA d : d.name = name)
    IN IF found = <<>> THEN Undefined ELSE Some(Head(found))

----------------------------------------------------------------------------
(* Component schemas *)

\* an object's properties in insertion order: a sequence of [name, schema]
Property(name, schema) == [name |-> name, schema |-> schema]

\* a named component: entity is the entity schema it holds (the component itself,
\* or its data property), relationships the relationship properties of a response
\* envelope, refs the components its other parts refer to by $ref
Component(kind, entity, relationships, refs) ==
    [kind |-> kind, entity |-> entity, relationships |-> relationships, refs |-> refs]

SharedComponent(refs) == Component("shared", Undefined, <<>>, refs)

generateSharedComponents ==
    LET refsOf(n) ==
            CASE n = "_resource" -> {<<"_resourceIdentifier">>}
              [] n = "_errorResponse" -> {<<"_jsonapi">>, <<"_errors">>}
              [] n = "_toOneRelationship" -> {<<"_resourceIdentifier">>}
              [] n = "_toOneRelationshipWithLinks" ->
                     {<<"_relationLinks">>, <<"_resourceIdentifier">>}
              [] n = "_toManyRelationship" -> {<<"_resourceIdentifier">>}
              [] n = "_toManyRelationshipWithLinks" ->
                     {<<"_pagedRelationLinks">>, <<"_resourceIdentifier">>}
              [] n = "_pagedRelationLinks" -> {<<"_pagination">>, <<"_relationLinks">>}
              [] n = "_toManyRelationshipRequest" -> {<<"_resourceIdentifier">>}
              [] n = "_toOneRelationshipRequest" -> {<<"_resourceIdentifier">>}
              [] n = "_toManyRelationshipResponse" ->
                     {<<"_toManyRelationshipWithLinks">>, <<"_jsonapi">>}
              [] n = "_toOneRelationshipResponse" ->
                     {<<"_toOneRelationshipWithLinks">>, <<"_jsonapi">>}
              [] OTHER -> {}
        names == {"_jsonapi", "_meta", "_resourceIdentifier", "_resource", "_links",
                  "_pagination", "_errors", "_errorResponse", "_relationLinks",
                  "_toOneRelationship", "_toOneRelationshipWithLinks",
                  "_toManyRelationship", "_toManyRelationshipWithLinks",
                  "_pagedRelationLinks", "_toManyRelationshipRequest",
                  "_toOneRelationshipRequest", "_toManyRelationshipResponse",
                  "_toOneRelationshipResponse"}
    IN [k \in {<<n>> : n \in names} |-> SharedComponent(refsOf(k[1]))]

\* the enums the input schema declares
EnumDecls == <<Role, Status>>

generateEnumComponent(enum) == Component("enum", Undefined, <<>>, {})

\* const idFields = model.fields.filter((f) => isIdField(f))
EntityIdFields(model) == SelectSeq(model.fields, isIdField)

\* the identifier fields are left out also when the identifier is compound
EntityFieldsWithoutIds(model) == SelectSeq(model.fields, LAMBDA f : ~isIdField(f))

\* the fields the loop of generateModelEntity visits: all of them when the
\* identifier is compound, all but the identifier field otherwise
EntityFields(model) ==
    IF Len(EntityIdFields(model)) > 1 THEN model.fields
    ELSE SelectSeq(model.fields, LAMBDA f : ~isIdField(f))

\* foreign keys are visited in every mode
IsExposedAlways(field, mode) == TRUE

\* a foreign key is visited further in read mode only
IsExposed(field, mode) == ~(isForeignKeyField(field) /\ mode # "read")

\* the required test without the look at @default
IsRequiredAttributeDespiteDefault(field, mode) ==
    IF /\ mode = "create"
       /\ ~field.optional
       /\ ~(isDataModel(field) /\ field.array)
    THEN TRUE
    ELSE mode = "read"

\* an attribute field whose name is pushed to the required list of attributes
IsRequiredAttribute(field, mode) ==
    IF /\ mode = "create"
       /\ ~field.optional
       /\ ~field.hasDefault
       /\ ~(isDataModel(field) /\ field.array)
    THEN TRUE
    ELSE mode = "read"

\* the shapes of create and update used in every mode
RelationshipTypeWithoutLinks(field, mode) ==
    IF field.array THEN <<"_toManyRelationship">> ELSE <<"_toOneRelationship">>

\* the $ref of a relationship field, by mode and cardinality
RelationshipType(field, mode) ==
    IF mode = "create" \/ mode = "update"
    THEN (IF field.array THEN <<"_toManyRelationship">> ELSE <<"_toOneRelationship">>)
    ELSE (IF field.array THEN <<"_toManyRelationshipWithLinks">>
          ELSE <<"_toOneRelationshipWithLinks">>)

\* the schema of the top-level id: string unless there is one identifier field
IdFieldSchema(model) ==
    IF Len(EntityIdFields(model)) = 1
    THEN fieldTypeToOpenAPISchema(EntityIdFields(model)[1])
    ELSE Schema("string", "")

\* the rule of create mode applied in every mode
HasTopLevelIdWithoutDefault(model, mode) ==
    Len(EntityIdFields(model)) = 1 /\ ~EntityIdFields(model)[1].hasDefault

\* whether the top-level id property is added (and with it "id" is required)
HasTopLevelId(model, mode) ==
    IF mode = "create"
    THEN Len(EntityIdFields(model)) = 1 /\ ~EntityIdFields(model)[1].hasDefault
    ELSE TRUE

generateModelEntity(model, mode) ==
    LET exposed == SelectSeq(EntityFields(model), LAMBDA f : IsExposed(f, mode))
        relFields == SelectSeq(exposed, isRelationshipField)
        attrFields == SelectSeq(exposed, LAMBDA f : ~isRelationshipField(f))
        relationships ==
            [i \in DOMAIN relFields |->
                Property(relFields[i].name,
                         wrapNullable(ref(RelationshipType(relFields[i], mode)),
                                      relFields[i].optional))]
        attributes ==
            [i \in DOMAIN attrFields |-> Property(attrFields[i].name, generateField(attrFields[i]))]
        requiredFields == SelectSeq(attrFields, LAMBDA f : IsRequiredAttribute(f, mode))
        required == [i \in DOMAIN requiredFields |-> requiredFields[i].name]
        withId == HasTopLevelId(model, mode)
    IN [required |-> (IF withId THEN <<"id">> ELSE <<>>) \o <<"type", "attributes">>,
        id |-> IF withId THEN Some(IdFieldSchema(model)) ELSE Undefined,
        attributes |-> [required |-> IF Len(required) > 0 THEN Some(required) ELSE Undefined,
                        properties |-> attributes],
        relationships |-> IF Len(relationships) > 0 THEN Some(relationships) ELSE Undefined]

generateDataModelComponents(model) ==
    LET relFields == SelectSeq(model.fields, isRelationshipField)
        relationships ==
            [i \in DOMAIN relFields |->
                Property(relFields[i].name,
                         IF relFields[i].array THEN ref(<<"_toManyRelationship">>)
                         ELSE ref(<<"_toOneRelationship">>))]
        suffixes == {<<>>, <<"CreateRequest">>, <<"UpdateRequest">>, <<"Response">>,
                     <<"ListResponse">>}
    IN [k \in {model.name \o x : x \in suffixes} |->
           CASE k = model.name ->
                  Component("entity", Some(generateModelEntity(model, "read")), <<>>, {})
             [] k = model.name \o <<"CreateRequest">> ->
                  Component("request", Some(generateModelEntity(model, "create")), <<>>,
                            {<<"_meta">>})
             [] k = model.name \o <<"UpdateRequest">> ->
                  Component("request", Some(generateModelEntity(model, "update")), <<>>,
                            {<<"_meta">>})
             [] k = model.name \o <<"Response">> ->
                  Component("response", Undefined, relationships,
                            {<<"_jsonapi">>, model.name, <<"_meta">>, <<"_resource">>,
                             <<"_links">>})
             [] OTHER ->
                  Component("listResponse", Undefined, relationships,
                            {<<"_jsonapi">>, model.name, <<"_meta">>, <<"_resource">>,
                             <<"_links">>, <<"_pagination">>})]

\* getDataModels(this.model): the data models of the schema, ignored ones included
getDataModels(decls) == decls

\* schemas[name] = value for every entry of every part, later entries replacing
\* earlier ones of the same name
RECURSIVE AssignAll(_, _)
AssignAll(target, parts) ==
    IF parts = <<>> THEN target ELSE AssignAll(Spread(target, Head(parts)), Tail(parts))

generateComponents(decls) ==
    LET enums == [k \in Range(EnumDecls) |-> generateEnumComponent(k)]
        models == [i \in DOMAIN getDataModels(decls) |->
                      generateDataModelComponents(getDataModels(decls)[i])]
    IN AssignAll(generateSharedComponents, <<enums>> \o models)

----------------------------------------------------------------------------
(* The pruning pass *)

\* the components a schema fragment refers to
SchemaRef(schema) == IF schema.ref = <<>> THEN {} ELSE {schema.ref}

EntityRefs(entity) ==
    UNION {SchemaRef(p.schema) : p \in Range(entity.attributes.properties)}
    \cup (IF entity.relationships = Undefined THEN {}
          ELSE UNION {SchemaRef(p.schema) : p \in Range(entity.relationships[1])})
    \cup (IF entity.id = Undefined THEN {} ELSE SchemaRef(entity.id[1]))

\* every $ref to a schema that occurs in a component
ComponentRefs(component) ==
    component.refs
    \cup UNION {SchemaRef(p.schema) : p \in Range(component.relationships)}
    \cup (IF component.entity = Undefined THEN {} ELSE EntityRefs(component.entity[1]))

\* every $ref to a schema that occurs in an operation: request body, responses and
\* the schemas of inline parameters
OperationRefs(op) ==
    (IF op.requestBody = Undefined THEN {} ELSE {op.requestBody[1]})
    \cup {op.responses[c] : c \in {c \in DOMAIN op.responses : op.responses[c] # NoContent}}
    \cup UNION {SchemaRef(p.schema) : p \in Range(op.parameters)}

Values(o) == {o[k] : k \in DOMAIN o}

\* every operation of a paths object
Operations(ps) == UNION {Values(ps[k]) : k \in DOMAIN ps}

PathRefs(ps) == UNION {OperationRefs(op) : op \in Operations(ps)}

\* the components reachable by $ref from the set used
RECURSIVE Reachable(_, _)
Reachable(used, comps) ==
    LET next == used \cup UNION {ComponentRefs(comps[n]) : n \in used \cap DOMAIN comps}
    IN IF next = used THEN used ELSE Reachable(next, comps)

\* a pruning that keeps whatever any schema still present refers to
PruneReferencedAnywhere(ps, comps) ==
    LET used == PathRefs(ps) \cup UNION {ComponentRefs(comps[n]) : n \in DOMAIN comps}
    IN [n \in DOMAIN comps \cap used |-> comps[n]]

\* remove every component no $ref chain from the paths reaches
pruneComponents(ps, comps) ==
    [n \in DOMAIN comps \cap Reachable(PathRefs(ps), comps) |-> comps[n]]

----------------------------------------------------------------------------
(* Tags *)

\* tags that always carry the default description
TagsWithDefaultDescriptions(decls) ==
    [i \in DOMAIN includedModels(decls) |->
        [name |-> lowerCaseFirst(includedModels(decls)[i].name),
         description |-> includedModels(decls)[i].name \o <<" operations">>]]

\* this.includedModels.map(...): name lowerCaseFirst(model.name), description
\* meta?.tagDescription ?? `${model.name} operations`
Tags(decls) ==
    [i \in DOMAIN includedModels(decls) |->
        LET model == includedModels(decls)[i]
            meta == getModelResourceMeta(model)
        IN [name |-> lowerCaseFirst(model.name),
            description |-> IF meta # Undefined /\ meta[1].tagDescription # Undefined
                            THEN meta[1].tagDescription[1]
                            ELSE model.name \o <<" operations">>]]

----------------------------------------------------------------------------
(* Security schemes *)

\* a configured scheme: its name and the value of its type
SecurityScheme(name, type) == [name |-> name, type |-> type]

\* the values of type of the recognized scheme shapes
RecognizedSchemeTypes == {"http", "apiKey", "oauth2", "openIdConnect"}

\* generateSecuritySchemes(): the securitySchemes option, in key order (<<>> when
\* the option is not set), refused when a scheme has an unrecognized type
generateSecuritySchemes(option) ==
    IF option = Undefined THEN [invalid |-> FALSE, schemes |-> Undefined]
    ELSE [invalid |-> \E i \in DOMAIN option[1] : option[1][i].type \notin RecognizedSchemeTypes,
          schemes |-> option]

\* a root-level security also for an empty securitySchemes object
DocumentSecurityOfAnyObject(securitySchemes) ==
    IF securitySchemes # Undefined
    THEN Some([i \in DOMAIN securitySchemes[1] |->
                  [scheme |-> securitySchemes[1][i].name, scopes |-> <<>>]])
    ELSE Undefined

\* Object.keys(components.securitySchemes).map((scheme) => ({ [scheme]: [] })) when
\* there is a key, undefined otherwise
DocumentSecurity(securitySchemes) ==
    IF securitySchemes # Undefined /\ Len(securitySchemes[1]) > 0
    THEN Some([i \in DOMAIN securitySchemes[1] |->
                  [scheme |-> securitySchemes[1][i].name, scopes |-> <<>>]])
    ELSE Undefined

----------------------------------------------------------------------------
(* Inputs *)

MyUser == <<"m", "yUser">>
PostRelationshipAuthor == <<"P", "ost", "-", "relationship", "-", "author">>

\* the relation fields a data model may declare, each with its foreign key field
RelationTemplates ==
    {<<Relation(<<"author">>, User, FALSE, FALSE), ForeignKey(<<"authorId">>, FALSE)>>,
     <<Relation(<<"parent">>, Post, FALSE, TRUE), ForeignKey(<<"parentId">>, TRUE)>>,
     <<Relation(<<"posts">>, Post, TRUE, FALSE)>>,
     <<Relation(<<"members">>, User, TRUE, FALSE)>>}

\* the sequences of at most n different elements of S
RECURSIVE DistinctSeqs(_, _)
DistinctSeqs(S, n) ==
    IF n = 0 THEN {<<>>}
    ELSE {<<>>} \cup UNION {{<<x>> \o t : t \in {u \in DistinctSeqs(S, n - 1) : x \notin Range(u)}}
                            : x \in S}

RelationChoices == {Flatten(c) : c \in DistinctSeqs(RelationTemplates, MaxRelFields)}

BaseFields(name) ==
    IF name = User
    THEN <<IdField(<<"id">>, "String", FALSE), Scalar(<<"email">>, "String"),
           EnumField(<<"role">>, Role)>>
    ELSE <<IdField(<<"id">>, "Int", TRUE), Scalar(<<"title">>, "String")>>

NoPolicies == [read |-> FALSE, create |-> FALSE, update |-> FALSE, delete |-> FALSE]
PolicyResults == [read : BOOLEAN, create : BOOLEAN, update : BOOLEAN, delete : BOOLEAN]

Meta(security) == Some([security |-> security, tagDescription |-> Undefined])
\* @@openapi.meta({ tagDescription: '...' })
MetaWithTagDescription(tagDescription) ==
    Some([security |-> JsUndefined, tagDescription |-> Some(tagDescription)])
PostRelatedOperations == <<"Post-related operations">>
\* no @@openapi.meta; meta without security; security: []; security: [{ myBasic: [] }]
MetaChoices ==
    {Undefined, Meta(JsUndefined), Meta(JsObject(<<>>)), Meta(JsObject(<<"myBasic">>))}

NoMapping == [n \in {} |-> <<>>]
MappingChoices ==
    {NoMapping,
     [n \in {User} |-> MyUser],
     [n \in {User} |-> Post],
     [n \in {User} |-> PostRelationshipAuthor]}

\* the prefix option: not set, without and with a trailing slash, a slash alone
PrefixChoices == {<<>>, <<"/api">>, <<"/api", "/">>, <<"/">>}

\* the securitySchemes option: not set, an empty object, the schemes of the tests,
\* and objects with a scheme of an unrecognized type
SecuritySchemeChoices ==
    {Undefined,
     Some(<<>>),
     Some(<<SecurityScheme("myBasic", "http")>>),
     Some(<<SecurityScheme("myBasic", "http"), SecurityScheme("myBearer", "http"),
            SecurityScheme("myApiKey", "apiKey")>>),
     Some(<<SecurityScheme("myBasic", "invalid")>>),
     Some(<<SecurityScheme("myBasic", "http"), SecurityScheme("myKey", "invalid")>>)}

TypeOK ==
    /\ pc \in {"components", "paths", "prune", "security", "write", "done", "failed", "filter",
              "entity"}
    /\ idx \in 1..(Len(dmmf) + 1)
    /\ Len(declarations) = Len(dmmf)

\* generate() is about to run on a schema of the two data models User and Post
InitWith(decls, opts) ==
    /\ declarations = decls
    /\ options = opts
    /\ dmmf = [i \in DOMAIN decls |-> [name |-> decls[i].name]]
    /\ pc = "components"
    /\ idx = 1
    /\ schemas = EmptyObject
    /\ paths = EmptyObject
    /\ warnings = <<>>
    /\ rootSecurity = Undefined
    /\ error = Undefined
    /\ output = Undefined
    /\ returned = Undefined

\* schemas that differ in their relation fields, ignored models and name mapping
Init ==
    \E ru \in RelationChoices, rp \in RelationChoices, iu \in BOOLEAN, ip \in BOOLEAN,
       mapping \in MappingChoices :
        InitWith(<<DataModel(User, BaseFields(User) \o ru, iu, Undefined, NoPolicies),
                   DataModel(Post, BaseFields(Post) \o rp, ip, Undefined, NoPolicies)>>,
                 [prefix |-> <<>>, modelNameMapping |-> mapping, securitySchemes |-> Undefined])

\* the schema of the security tests (User.posts, Post.author) under every policy
\* result and resource meta
InitSecurity ==
    \E pu \in PolicyResults, pp \in PolicyResults, mu \in MetaChoices, mp \in MetaChoices :
        InitWith(<<DataModel(User,
                             BaseFields(User) \o <<Relation(<<"posts">>, Post, TRUE, FALSE)>>,
                             FALSE, mu, pu),
                   DataModel(Post,
                             BaseFields(Post)
                                 \o <<Relation(<<"author">>, User, FALSE, FALSE),
                                      ForeignKey(<<"authorId">>, FALSE)>>,
                             FALSE, mp, pp)>>,
                 [prefix |-> <<>>, modelNameMapping |-> NoMapping, securitySchemes |-> Undefined])

\* the schema of the security tests under every securitySchemes and prefix option,
\* with and without ignored models, a mapped model name and a tag description
InitDocument ==
    \E securitySchemes \in SecuritySchemeChoices, iu \in BOOLEAN, ip \in BOOLEAN,
       mapping \in {NoMapping, [n \in {User} |-> MyUser]}, prefix \in PrefixChoices,
       mp \in {Undefined, Meta(JsUndefined), MetaWithTagDescription(PostRelatedOperations),
               MetaWithTagDescription(<<>>)} :
        InitWith(<<DataModel(User,
                             BaseFields(User) \o <<Relation(<<"posts">>, Post, TRUE, FALSE)>>,
                             iu, Undefined, NoPolicies),
                   DataModel(Post,
                             BaseFields(Post)
                                 \o <<Relation(<<"author">>, User, FALSE, FALSE),
                                      ForeignKey(<<"authorId">>, FALSE)>>,
                             ip, mp, NoPolicies)>>,
                 [prefix |-> prefix, modelNameMapping |-> mapping,
                  securitySchemes |-> securitySchemes])

----------------------------------------------------------------------------
(* generate() *)

\* const components = this.generateComponents()
GenerateComponents ==
    /\ pc = "components"
    /\ schemas' = generateComponents(declarations)
    /\ pc' = "paths"
    /\ idx' = 1
    /\ UNCHANGED <<declarations, options, dmmf, paths, warnings, rootSecurity, error, output,
                 returned>>

\* one iteration of the loop of generatePaths over this.dmmf.datamodel.models
GeneratePathsStep ==
    /\ pc = "paths"
    /\ idx <= Len(dmmf)
    /\ LET model == dmmf[idx]
           zmodel == FindDataModel(declarations, model.name)
       IN IF IsIncluded(declarations, model.name)
          THEN IF zmodel # Undefined
               THEN /\ paths' = Spread(paths, generatePathsForModel(model, zmodel[1], options,
                                                                   declarations))
                    /\ UNCHANGED warnings
               ELSE /\ warnings' = Append(warnings,
                                          <<"Unable to load ZModel definition for: ">>
                                              \o model.name \o <<"}">>)
                    /\ UNCHANGED paths
          ELSE UNCHANGED <<paths, warnings>>
    /\ idx' = idx + 1
    /\ UNCHANGED <<declarations, options, dmmf, pc, schemas, rootSecurity, error, output,
                 returned>>

\* the loop is over: generatePaths returns
GeneratePathsDone ==
    /\ pc = "paths"
    /\ idx > Len(dmmf)
    /\ pc' = "prune"
    /\ UNCHANGED <<declarations, options, dmmf, idx, schemas, paths, warnings, rootSecurity, error,
                 output, returned>>

\* this.pruneComponents(paths, components)
PruneComponents ==
    /\ pc = "prune"
    /\ schemas' = pruneComponents(paths, schemas)
    /\ pc' = "security"
    /\ UNCHANGED <<declarations, options, dmmf, idx, paths, warnings, rootSecurity, error, output,
                 returned>>

\* the security schemes are taken as they are configured, whatever their type
GenerateSecuritySchemesUnchecked ==
    /\ pc = "security"
    /\ rootSecurity' = DocumentSecurity(generateSecuritySchemes(options.securitySchemes).schemes)
    /\ pc' = "write"
    /\ UNCHANGED <<declarations, options, dmmf, idx, schemas, paths, warnings, error, output,
                   returned>>

\* components.securitySchemes = this.generateSecuritySchemes(), which throws when a
\* scheme is invalid, and the root-level security
GenerateSecuritySchemes ==
    /\ pc = "security"
    /\ LET securitySchemes == generateSecuritySchemes(options.securitySchemes)
       IN IF securitySchemes.invalid
          THEN /\ error' = Some(<<"\"securitySchemes\" option is invalid">>)
               /\ pc' = "failed"
               /\ UNCHANGED rootSecurity
          ELSE /\ rootSecurity' = DocumentSecurity(securitySchemes.schemes)
               /\ pc' = "write"
               /\ UNCHANGED error
    /\ UNCHANGED <<declarations, options, dmmf, idx, schemas, paths, warnings, output, returned>>

\* the document generate() assembles
Document ==
    [tags |-> Tags(declarations),
     paths |-> paths,
     components |-> [schemas |-> schemas,
                     securitySchemes |-> generateSecuritySchemes(options.securitySchemes).schemes],
     security |-> rootSecurity]

\* a write that adds the document to what the file holds
WriteOutputAppends ==
    /\ pc = "write"
    /\ output' = (IF output = Undefined THEN Some(Document) ELSE Append(output, Document))
    /\ returned' = Some([warnings |-> warnings])
    /\ pc' = "done"
    /\ UNCHANGED <<declarations, options, dmmf, idx, schemas, paths, warnings, rootSecurity,
                 error>>

\* the document is assembled and written to the output file, replacing what the
\* file held; generate() returns its warnings
WriteOutput ==
    /\ pc = "write"
    /\ output' = Some(Document)
    /\ returned' = Some([warnings |-> warnings])
    /\ pc' = "done"
    /\ UNCHANGED <<declarations, options, dmmf, idx, schemas, paths, warnings, rootSecurity,
                 error>>

\* generate() is called again on the same generator: its locals are fresh, the
\* generator's fields and the output file are as the last call left them
Generate ==
    /\ pc = "done"
    /\ pc' = "components"
    /\ idx' = 1
    /\ schemas' = EmptyObject
    /\ paths' = EmptyObject
    /\ rootSecurity' = Undefined
    /\ returned' = Undefined
    /\ UNCHANGED <<declarations, options, dmmf, warnings, error, output>>

Next ==
    \/ GenerateComponents
    \/ GeneratePathsStep
    \/ GeneratePathsDone
    \/ PruneComponents
    \/ GenerateSecuritySchemes
    \/ WriteOutput
    \/ Generate

Spec == Init /\ [][Next]_vars

SpecSecurity == InitSecurity /\ [][Next]_vars

SpecDocument == InitDocument /\ [][Next]_vars

----------------------------------------------------------------------------
(* Vocabulary of the properties *)

Generated == pc \in {"write", "done"}

\* the data model declared under a name
Decl(name) == CHOOSE d \in Range(declarations) : d.name = name

Included == {d \in Range(declarations) : ~d.ignored}
Ignored == {d \in Range(declarations) : d.ignored}

RelationFields(d) == {f \in Range(d.fields) : isRelationshipField(f)}

\* /<entity>: the prefix, a slash and the lower-cased-first mapped name
EntityPath(d) ==
    PathPrefix(options.prefix) \o <<"/">>
        \o lowerCaseFirst(mapModelName(options.modelNameMapping, d.name))
ItemPath(d) == EntityPath(d) \o <<"/", "{id}">>
RelatedPath(d, f) == ItemPath(d) \o <<"/">> \o f.name
RelationshipsPath(d, f) == ItemPath(d) \o <<"/", "relationships", "/">> \o f.name

\* security: [] and security left unset
Open == Some(<<>>)
Unset == Undefined
OpenIff(b) == IF b THEN Open ELSE Unset

HasOverride(d) == MetaSecurity(d.meta).tag # "undefined"

\* the places of the operations of a paths object
Places(ps) == UNION {{<<k, m>> : m \in DOMAIN ps[k]} : k \in DOMAIN ps}

IsPrefix(s, t) == Len(s) <= Len(t) /\ SubSeq(t, 1, Len(s)) = s

----------------------------------------------------------------------------
(* Properties *)

\* C1: after generate() has assembled the document, every component a $ref of the
\* paths or of a retained schema names is in components.schemas (no dangling
\* reference), and every component of components.schemas is reached by a chain of
\* $refs that starts in the paths (no orphan).
C1_NoDanglingNoOrphan ==
    Generated =>
        /\ PathRefs(paths) \subseteq DOMAIN schemas
        /\ \A n \in DOMAIN schemas : ComponentRefs(schemas[n]) \subseteq DOMAIN schemas
        /\ DOMAIN schemas \subseteq Reachable(PathRefs(paths), schemas)

\* a document with paths whose schemas were pruned: an unused enum is gone, the
\* schemas of a to-many relationship are kept
C1_Witness ==
    /\ pc = "done"
    /\ Status \notin DOMAIN schemas
    /\ Role \in DOMAIN schemas
    /\ <<"_toManyRelationshipResponse">> \in DOMAIN schemas
    /\ User \o <<"ListResponse">> \in DOMAIN schemas

\* C2: the operationIds of all operations of the generated paths are pairwise
\* distinct, for every set of included models and every modelNameMapping.
C2_OperationIdsDistinct ==
    Generated =>
        \A p, q \in Places(paths) :
            p # q => paths[p[1]][p[2]].operationId # paths[q[1]][q[2]].operationId

\* C3: for an included model without a resource-level security override, each
\* collection and item operation has security [] exactly when the policy analyzer
\* returns true for its kind (list and fetch: read, create: create, PUT and PATCH:
\* update, delete: delete) and has security unset otherwise.
C3_PolicyDecidesSecurity ==
    Generated =>
        \A d \in Included :
            ~HasOverride(d) =>
                LET collection == paths[EntityPath(d)]
                    item == paths[ItemPath(d)]
                IN /\ collection["get"].security = OpenIff(d.policies.read)
                   /\ collection["post"].security = OpenIff(d.policies.create)
                   /\ item["get"].security = OpenIff(d.policies.read)
                   /\ item["put"].security = OpenIff(d.policies.update)
                   /\ item["patch"].security = OpenIff(d.policies.update)
                   /\ item["delete"].security = OpenIff(d.policies.delete)

\* a model without override that may be read and deleted by anyone, and by no means
\* created or updated: its list is open, its create is not
C3_Witness ==
    /\ pc = "done"
    /\ \E d \in Included :
        /\ ~HasOverride(d)
        /\ d.policies = [read |-> TRUE, create |-> FALSE, update |-> FALSE, delete |-> TRUE]
        /\ paths[EntityPath(d)]["get"].security = Open
        /\ paths[EntityPath(d)]["post"].security = Unset
        /\ paths[ItemPath(d)]["delete"].security = Open

\* the paths of a model: its collection path and everything below it
PathsOf(d) ==
    {k \in DOMAIN paths :
        /\ IsPrefix(EntityPath(d), k)
        /\ (Len(k) > Len(EntityPath(d)) => k[Len(EntityPath(d)) + 1] = "/")}

\* C4: when a model has a resource-level security override, every operation
\* generated for it has security [], whatever the value of the override and whatever
\* the policy analyzer returns.
C4_OverrideOpensEverything ==
    Generated =>
        \A d \in Included :
            HasOverride(d) =>
                \A k \in PathsOf(d) : \A m \in DOMAIN paths[k] : paths[k][m].security = Open

\* a model with the empty override security: [] that no policy opens, and whose
\* to-many relationship has its POST
C4_Witness ==
    /\ pc = "done"
    /\ \E d \in Included :
        /\ MetaSecurity(d.meta) = JsObject(<<>>)
        /\ d.policies = NoPolicies
        /\ \E f \in RelationFields(d) :
            /\ Decl(f.ref).policies = NoPolicies
            /\ RelatedPath(d, f) \in PathsOf(d)
            /\ "post" \in DOMAIN paths[RelationshipsPath(d, f)]
            /\ paths[RelationshipsPath(d, f)]["post"].security = Open

\* C5: for a relationship field of an owning model without override, the related
\* fetch is open exactly when the RELATED model's read policy is true, the
\* relationship fetch exactly when the OWNING model's read policy is true, and PUT,
\* PATCH and POST on the relationships path follow the OWNING model's update policy.
C5_RelatedUsesRelatedPolicy ==
    Generated =>
        \A d \in Included :
            ~HasOverride(d) =>
                \A f \in RelationFields(d) :
                    LET related == paths[RelatedPath(d, f)]
                        relationship == paths[RelationshipsPath(d, f)]
                    IN /\ related["get"].security = OpenIff(Decl(f.ref).policies.read)
                       /\ relationship["get"].security = OpenIff(d.policies.read)
                       /\ \A m \in DOMAIN relationship \ {"get"} :
                            relationship[m].security = OpenIff(d.policies.update)

\* the security test: the owning model is not readable by everyone, the related
\* model is, and the related fetch is open while the relationship fetch is not
C5_Witness ==
    /\ pc = "done"
    /\ \E d \in Included :
        /\ ~HasOverride(d)
        /\ ~d.policies.read
        /\ d.policies.update
        /\ \E f \in RelationFields(d) :
            /\ Decl(f.ref).policies.read
            /\ ~Decl(f.ref).policies.update
            /\ f.array
            /\ paths[RelatedPath(d, f)]["get"].security = Open
            /\ paths[RelationshipsPath(d, f)]["get"].security = Unset
            /\ paths[RelationshipsPath(d, f)]["post"].security = Open

\* the methods the claim gives the relationships path of a field
RelationshipMethods(f) == {"get", "put", "patch"} \cup (IF f.array THEN {"post"} ELSE {})

\* C6: for every relationship field of an included model, the relationships path
\* carries GET, PUT and PATCH, and POST if and only if the field is array-valued:
\* in the paths as they are once the model's own path items have been merged in,
\* and in the final document for every model that shares its path with no other.
C6_PostOnlyForToMany ==
    /\ (pc = "paths" /\ idx > 1 /\ ~declarations[idx - 1].ignored) =>
            \A f \in RelationFields(declarations[idx - 1]) :
                DOMAIN paths[RelationshipsPath(declarations[idx - 1], f)]
                    = RelationshipMethods(f)
    /\ Generated =>
            \A d \in Included :
                (\A e \in Included : e # d => EntityPath(e) # EntityPath(d)) =>
                    \A f \in RelationFields(d) :
                        DOMAIN paths[RelationshipsPath(d, f)] = RelationshipMethods(f)

\* a document with the relationships path of a to-many field, with POST, and that
\* of a to-one field, without
C6_Witness ==
    /\ pc = "done"
    /\ \E d, e \in Included :
        \E f \in RelationFields(d), g \in RelationFields(e) :
            /\ f.array
            /\ ~g.array
            /\ "post" \in DOMAIN paths[RelationshipsPath(d, f)]
            /\ "post" \notin DOMAIN paths[RelationshipsPath(e, g)]
            /\ "patch" \in DOMAIN paths[RelationshipsPath(e, g)]

\* the components generated for a data model
ComponentNamesOf(name) ==
    {name \o x : x \in {<<>>, <<"CreateRequest">>, <<"UpdateRequest">>, <<"Response">>,
                        <<"ListResponse">>}}

\* C8: when an included model declares a relationship field whose target model is
\* ignored, no related path and no relationships path is emitted for that field and
\* no schema named after the ignored model remains in the final components.
C8_IgnoredTargetOmitted ==
    Generated =>
        \A d \in Included :
            \A f \in RelationFields(d) :
                Decl(f.ref).ignored =>
                    /\ RelatedPath(d, f) \notin DOMAIN paths
                    /\ RelationshipsPath(d, f) \notin DOMAIN paths
                    /\ ComponentNamesOf(f.ref) \cap DOMAIN schemas = {}

\* the descriptions of the operations generatePathsForModel makes for a model: each
\* quotes the name of the model
DescriptionsOf(d) ==
    {op.description :
        op \in Operations(generatePathsForModel([name |-> d.name], d, options, declarations))}

\* C9: a model that is not in the included set gets no collection path, no item
\* path and no related or relationships path of its own: no operation of the paths
\* is one of the model, and unless an included model is mapped to the same path,
\* no path of the document is the model's collection path or lies below it.
C9_IgnoredModelHasNoPaths ==
    \A d \in Ignored :
        /\ \A op \in Operations(paths) : op.description \notin DescriptionsOf(d)
        /\ (\A e \in Included : EntityPath(e) # EntityPath(d)) => PathsOf(d) = {}

\* a document with the paths of one model while the other, ignored one, declares a
\* relationship field
C9_Witness ==
    /\ pc = "done"
    /\ DOMAIN paths # {}
    /\ \E d \in Ignored : RelationFields(d) # {}

\* C10: the pruning pass is idempotent: applied to the paths and to the component
\* set it has left, it leaves that component set unchanged.
C10_PruneIdempotent ==
    Generated => pruneComponents(paths, schemas) = schemas

\* the pruning pass has removed some components and kept others
C10_Witness ==
    /\ pc = "done"
    /\ DOMAIN schemas # {}
    /\ User \in DOMAIN schemas
    /\ (DOMAIN generateComponents(declarations)) \ DOMAIN schemas # {}

ConfiguredSchemeNames ==
    IF options.securitySchemes = Undefined THEN {}
    ELSE {options.securitySchemes[1][i].name : i \in DOMAIN options.securitySchemes[1]}

\* C12: with at least one security scheme configured, the security of the document
\* written is a list with exactly one entry per configured scheme name, each with an
\* empty scope list; with no scheme configured it is unset.
C12_RootSecurityPerScheme ==
    pc = "done" =>
        IF ConfiguredSchemeNames # {}
        THEN /\ output[1].security # Undefined
             /\ \A n \in ConfiguredSchemeNames :
                    Cardinality({i \in DOMAIN output[1].security[1] :
                                    output[1].security[1][i].scheme = n}) = 1
             /\ \A i \in DOMAIN output[1].security[1] :
                    /\ output[1].security[1][i].scheme \in ConfiguredSchemeNames
                    /\ output[1].security[1][i].scopes = <<>>
        ELSE output[1].security = Undefined

\* the document of the security test: three schemes, three entries
C12_Witness ==
    /\ pc = "done"
    /\ Cardinality(ConfiguredSchemeNames) = 3
    /\ Len(output[1].security[1]) = 3
    /\ output[1].security[1][2] = [scheme |-> "myBearer", scopes |-> <<>>]

\* a configured scheme has a type that is not recognized
HasInvalidScheme ==
    /\ options.securitySchemes # Undefined
    /\ \E i \in DOMAIN options.securitySchemes[1] :
            options.securitySchemes[1][i].type \notin RecognizedSchemeTypes

\* C13: when a configured security scheme has an unrecognized type, generate() never
\* reaches the directory-creation and file-write step and never returns: nothing is
\* written to the output, and generate() fails with an error; without such a scheme
\* it does not fail.
C13_InvalidSchemeAborts ==
    /\ HasInvalidScheme =>
            /\ pc \notin {"write", "done"}
            /\ output = Undefined
            /\ returned = Undefined
    /\ pc = "failed" <=> error # Undefined
    /\ pc = "failed" => HasInvalidScheme

\* generate() has failed on an invalid scheme configured next to a valid one, after
\* the paths were built, and the output holds nothing
C13_Witness ==
    /\ pc = "failed"
    /\ error = Some(<<"\"securitySchemes\" option is invalid">>)
    /\ Len(options.securitySchemes[1]) = 2
    /\ DOMAIN paths # {}
    /\ output = Undefined

\* C15: the related fetch GET /<entity>/{id}/<field> of an array-valued relationship
\* field has the parameters id, include, sort, page-offset, page-limit followed by
\* the filter parameters of the RELATED model and answers 200 with
\* <Related>ListResponse; that of a to-one field has the parameters id and include
\* only and answers 200 with <Related>Response. Stated of the paths as they are once
\* the owning model's path items have been merged in.
C15_RelatedFetchOfRelatedEntity ==
    (pc = "paths" /\ idx > 1 /\ ~declarations[idx - 1].ignored) =>
        \A f \in RelationFields(declarations[idx - 1]) :
            LET op == paths[RelatedPath(declarations[idx - 1], f)]["get"]
                related == Decl(f.ref)
            IN IF f.array
               THEN /\ op.parameters
                        = <<parameter("id"), parameter("include"), parameter("sort"),
                            parameter("page-offset"), parameter("page-limit")>>
                              \o generateFilterParameters(related)
                    /\ op.responses["200"] = success(related.name \o <<"ListResponse">>)
               ELSE /\ op.parameters = <<parameter("id"), parameter("include")>>
                    /\ op.responses["200"] = success(related.name \o <<"Response">>)

----------------------------------------------------------------------------
(* generateFilterParameters applied to one data model *)

\* the fields a data model handed to generateFilterParameters may declare
FilterFieldPool ==
    {IdField(<<"id">>, "String", FALSE),
     IdField(<<"key">>, "Int", TRUE),
     Field(<<"userId">>, "String", "none", <<>>, FALSE, FALSE, TRUE, TRUE, FALSE),
     Scalar(<<"id">>, "Int"),
     Scalar(<<"title">>, "String"),
     Scalar(<<"flag">>, "Boolean"),
     Scalar(<<"meta">>, "Json"),
     Field(<<"tags">>, "String", "none", <<>>, TRUE, FALSE, FALSE, FALSE, FALSE),
     EnumField(<<"role">>, Role),
     ForeignKey(<<"authorId">>, FALSE),
     Relation(<<"author">>, User, FALSE, FALSE),
     Relation(<<"posts">>, Post, TRUE, FALSE)}

\* fields of the other primitive types, of a type def and an array of numbers
TypedFieldPool ==
    {IdField(<<"key">>, "Int", TRUE),
     Scalar(<<"big">>, "BigInt"),
     Scalar(<<"score">>, "Float"),
     Scalar(<<"amount">>, "Decimal"),
     Scalar(<<"createdAt">>, "DateTime"),
     Scalar(<<"data">>, "Bytes"),
     Field(<<"counts">>, "Int", "none", <<>>, TRUE, FALSE, FALSE, FALSE, FALSE),
     Field(<<"profile">>, "", "typedef", <<"P", "rofile">>, FALSE, FALSE, FALSE, FALSE, FALSE)}

\* field lists: no two fields of a data model have the same name
FieldLists ==
    {fs \in DistinctSeqs(FilterFieldPool, MaxFields) \cup DistinctSeqs(TypedFieldPool, MaxFields) :
        /\ fs # <<>>
        /\ \A i, j \in DOMAIN fs : i # j => fs[i].name # fs[j].name}

InitFilter ==
    /\ \E fs \in FieldLists :
        declarations = <<DataModel(User, fs, FALSE, Undefined, NoPolicies)>>
    /\ options = [prefix |-> <<>>, modelNameMapping |-> NoMapping, securitySchemes |-> Undefined]
    /\ dmmf = <<[name |-> User]>>
    /\ pc = "filter"
    /\ idx = 1
    /\ schemas = EmptyObject
    /\ paths = EmptyObject
    /\ warnings = <<>>
    /\ rootSecurity = Undefined
    /\ error = Undefined
    /\ output = Undefined
    /\ returned = Undefined

\* this.generateFilterParameters(model)
GenerateFilterParameters ==
    /\ pc = "filter"
    /\ returned' = Some(generateFilterParameters(declarations[1]))
    /\ pc' = "done"
    /\ UNCHANGED <<declarations, options, dmmf, idx, schemas, paths, warnings, rootSecurity, error,
                 output>>

NextFilter == GenerateFilterParameters

SpecFilter == InitFilter /\ [][NextFilter]_vars

\* the filter parameters returned, the fields of the model and its identifier fields
FilterParams == returned[1]
FilterFields == Range(declarations[1].fields)
IdFields == {f \in FilterFields : isIdField(f)}
Filtered == pc = "done" /\ returned # Undefined

FilterName(fieldName) == <<"filter[">> \o fieldName \o <<"]">>
EqualityDescription(f) == <<"Equality filter", " for \"">> \o f.name \o <<"\"">>

\* how many of the parameters returned satisfy P
CountParams(P(_)) == Cardinality({i \in DOMAIN FilterParams : P(FilterParams[i])})

\* C7 as the specification states it: a model with a single identifier field has
\* exactly one parameter named filter[id]; with a compound identifier each component
\* field has its own equality filter filter[<field>] and no parameter is named
\* filter[id].
C7_IdFilterExactlyOnce ==
    Filtered =>
        /\ Cardinality(IdFields) = 1 =>
                CountParams(LAMBDA q : q.name = FilterName(<<"id">>)) = 1
        /\ Cardinality(IdFields) > 1 =>
                /\ \A f \in IdFields :
                        CountParams(LAMBDA q : q.name = FilterName(f.name)
                                               /\ q.description = EqualityDescription(f)) = 1
                /\ CountParams(LAMBDA q : q.name = FilterName(<<"id">>)) = 0

\* the fields whose equality filter is named filter[id]: named id, no foreign key
\* and not the single identifier
PlainIdNamed ==
    {f \in FilterFields :
        /\ f.name = <<"id">>
        /\ ~isForeignKeyField(f)
        /\ ~(isIdField(f) /\ Cardinality(IdFields) = 1)}

\* C7 amended: the id filter (description "Id filter", name filter[id]) is emitted
\* exactly once when the model has a single identifier field that is no foreign key,
\* and not at all when that field is a foreign key or the identifier is compound;
\* of a compound identifier, each component that is no foreign key has exactly one
\* equality filter filter[<field>] and a foreign-key component has no parameter; a
\* parameter named filter[id] then exists only as the id filter or as the equality
\* filter of a field named id.
C7_IdFilterUnlessForeignKey ==
    Filtered =>
        LET idFilters == CountParams(LAMBDA q : q.description = <<"Id filter">>)
            single == Cardinality(IdFields) = 1 /\ \A f \in IdFields : ~isForeignKeyField(f)
        IN /\ idFilters = (IF single THEN 1 ELSE 0)
           /\ \A i \in DOMAIN FilterParams :
                FilterParams[i].description = <<"Id filter">>
                    => FilterParams[i].name = FilterName(<<"id">>)
           /\ CountParams(LAMBDA q : q.name = FilterName(<<"id">>))
                = idFilters + Cardinality(PlainIdNamed)
           /\ Cardinality(IdFields) > 1 =>
                \A f \in IdFields :
                    /\ CountParams(LAMBDA q : q.name = FilterName(f.name)
                                              /\ q.description = EqualityDescription(f))
                         = (IF isForeignKeyField(f) THEN 0 ELSE 1)
                    /\ isForeignKeyField(f) =>
                         CountParams(LAMBDA q : IsPrefix(<<"filter[">> \o f.name, q.name)) = 0

\* a model whose single identifier is a foreign key, next to a field that is
\* filtered: parameters were returned and none of them is the id filter
C7_Witness ==
    /\ Filtered
    /\ Cardinality(IdFields) = 1
    /\ \A f \in IdFields : isForeignKeyField(f)
    /\ FilterParams # <<>>
    /\ CountParams(LAMBDA q : q.name = FilterName(<<"id">>)) = 0

\* the operator suffixes of the parameters of a field, in the order returned
Suffixes(f) ==
    LET own == SelectSeq(FilterParams, LAMBDA q : Len(q.name) = 4 /\ q.name[2] = f.name[1])
    IN [i \in DOMAIN own |-> own[i].name[3]]

\* the operator suffixes the claim gives a field
ExpectedSuffixes(f) ==
    IF f.array THEN <<"$has", "$hasEvery", "$hasSome", "$isEmpty">>
    ELSE IF f.type \in {"Int", "BigInt", "Float", "Decimal", "DateTime"}
    THEN <<"$lt", "$lte", "$gt", "$gte">>
    ELSE IF f.type = "String"
    THEN <<"$contains", "$icontains", "$search", "$startsWith", "$endsWith">>
    ELSE <<>>

\* the fields that are filtered like a regular field
RegularFields ==
    {f \in FilterFields :
        /\ ~isForeignKeyField(f)
        /\ ~(isIdField(f) /\ Cardinality(IdFields) = 1)
        /\ ~isRelationshipField(f)}

\* C24: for a field that is no foreign key, not the single identifier and no
\* relationship, the parameters that follow its equality filter carry exactly the
\* operator suffixes $has, $hasEvery, $hasSome, $isEmpty when it is an array; $lt,
\* $lte, $gt, $gte when it is a scalar Int, BigInt, Float, Decimal or DateTime;
\* $contains, $icontains, $search, $startsWith, $endsWith when it is a scalar String;
\* and none for any other scalar type.
C24_OperatorSuffixesByType ==
    Filtered =>
        \A f \in RegularFields :
            /\ Suffixes(f) = ExpectedSuffixes(f)
            /\ \E i \in DOMAIN FilterParams :
                /\ FilterParams[i].name = FilterName(f.name)
                /\ FilterParams[i].description = EqualityDescription(f)
                /\ i + Len(ExpectedSuffixes(f)) <= Len(FilterParams)
                /\ \A k \in DOMAIN ExpectedSuffixes(f) :
                        FilterParams[i + k].name
                            = FilterName(f.name \o <<ExpectedSuffixes(f)[k]>>)

\* an array of numbers with the collection operators only, next to a DateTime with
\* the comparison operators and a Bytes field with none
C24_Witness ==
    /\ Filtered
    /\ \E f, g, h \in RegularFields :
        /\ f.array /\ f.type = "Int"
        /\ Suffixes(f) = <<"$has", "$hasEvery", "$hasSome", "$isEmpty">>
        /\ g.type = "DateTime"
        /\ Suffixes(g) = <<"$lt", "$lte", "$gt", "$gte">>
        /\ h.type = "Bytes"
        /\ Suffixes(h) = <<>>

\* the index of the field a returned parameter was made for: the identifier field
\* for the id filter, the field named in filter[<field>...] otherwise
Owner(i) ==
    IF FilterParams[i].description = <<"Id filter">>
    THEN CHOOSE k \in DOMAIN declarations[1].fields : isIdField(declarations[1].fields[k])
    ELSE CHOOSE k \in DOMAIN declarations[1].fields :
            declarations[1].fields[k].name = <<FilterParams[i].name[2]>>

\* C25: the filter parameters are the parameters of the fields in declaration
\* order; a foreign-key field has no parameter, also when it is an identifier; a
\* relationship field has exactly one, the equality filter filter[<field>]; every
\* other field has at least one.
C25_FieldOrderAndSkips ==
    Filtered =>
        /\ \A i, j \in DOMAIN FilterParams : i < j => Owner(i) <= Owner(j)
        /\ \A k \in DOMAIN declarations[1].fields :
            LET f == declarations[1].fields[k]
                own == {i \in DOMAIN FilterParams : Owner(i) = k}
            IN IF isForeignKeyField(f) THEN own = {}
               ELSE IF isRelationshipField(f)
               THEN /\ Cardinality(own) = 1
                    /\ \A i \in own :
                        /\ FilterParams[i].name = FilterName(f.name)
                        /\ FilterParams[i].description = EqualityDescription(f)
               ELSE own # {}

\* an identifier that is a foreign key, before a relationship field and a string
C25_Witness ==
    /\ Filtered
    /\ \E i, j, k \in DOMAIN declarations[1].fields :
        /\ i < j /\ j < k
        /\ isIdField(declarations[1].fields[i]) /\ isForeignKeyField(declarations[1].fields[i])
        /\ isRelationshipField(declarations[1].fields[j])
        /\ declarations[1].fields[k].type = "String"
    /\ Len(FilterParams) = 7
    /\ Owner(1) = 2

\* C30: the names of the filter parameters returned for a model are pairwise
\* distinct, also when the model has a single identifier field and another field
\* that is itself named id.
C30_FilterNamesDistinct ==
    Filtered =>
        \A i, j \in DOMAIN FilterParams :
            i # j => FilterParams[i].name # FilterParams[j].name

----------------------------------------------------------------------------
(* generateModelEntity applied to one data model *)

\* the fields a data model handed to generateModelEntity may declare
EntityFieldPool ==
    {IdField(<<"id">>, "String", FALSE),
     IdField(<<"key">>, "Int", TRUE),
     Field(<<"userId">>, "String", "none", <<>>, FALSE, FALSE, TRUE, TRUE, FALSE),
     Scalar(<<"title">>, "String"),
     Field(<<"bio">>, "String", "none", <<>>, FALSE, TRUE, FALSE, FALSE, FALSE),
     Field(<<"views">>, "Int", "none", <<>>, FALSE, FALSE, FALSE, FALSE, TRUE),
     Field(<<"tags">>, "String", "none", <<>>, TRUE, FALSE, FALSE, FALSE, FALSE),
     EnumField(<<"role">>, Role),
     ForeignKey(<<"authorId">>, FALSE),
     Relation(<<"author">>, User, FALSE, FALSE),
     Relation(<<"parent">>, Post, FALSE, TRUE),
     Relation(<<"posts">>, Post, TRUE, FALSE)}

EntityFieldLists == {fs \in DistinctSeqs(EntityFieldPool, MaxFields) : fs # <<>>}

Modes == {"read", "create", "update"}

InitEntity ==
    /\ \E fs \in EntityFieldLists :
        declarations = <<DataModel(User, fs, FALSE, Undefined, NoPolicies)>>
    /\ options = [prefix |-> <<>>, modelNameMapping |-> NoMapping, securitySchemes |-> Undefined]
    /\ dmmf = <<[name |-> User]>>
    /\ pc = "entity"
    /\ idx = 1
    /\ schemas = EmptyObject
    /\ paths = EmptyObject
    /\ warnings = <<>>
    /\ rootSecurity = Undefined
    /\ error = Undefined
    /\ output = Undefined
    /\ returned = Undefined

\* this.generateModelEntity(model, mode)
GenerateModelEntity ==
    /\ pc = "entity"
    /\ \E mode \in Modes :
        returned' = Some([mode |-> mode, schema |-> generateModelEntity(declarations[1], mode)])
    /\ pc' = "done"
    /\ UNCHANGED <<declarations, options, dmmf, idx, schemas, paths, warnings, rootSecurity, error,
                 output>>

NextEntity == GenerateModelEntity

SpecEntity == InitEntity /\ [][NextEntity]_vars

\* the call that returned: its model, its mode and the entity schema it built
EntityDone == pc = "done" /\ returned # Undefined
EntityModel == declarations[1]
EntityMode == returned[1].mode
EntitySchema == returned[1].schema
Ids == SelectSeq(EntityModel.fields, LAMBDA f : f.isId)

Names(props) == [i \in DOMAIN props |-> props[i].name]
AttributeNames == Names(EntitySchema.attributes.properties)
RelationshipNames ==
    IF EntitySchema.relationships = Undefined THEN <<>>
    ELSE Names(EntitySchema.relationships[1])
\* attributes.required, an absent list read as the empty one
AttributesRequired ==
    IF EntitySchema.attributes.required = Undefined THEN <<>>
    ELSE EntitySchema.attributes.required[1]

\* the type of the top-level id the claims expect: the identifier field's own
\* type when there is one identifier field (String and Int here), string otherwise
ExpectedIdType ==
    IF Len(Ids) = 1 /\ Ids[1].type = "Int" THEN "integer" ELSE "string"
IsPlainSchema(schema, type) ==
    /\ schema.type = type
    /\ schema.ref = <<>>
    /\ ~schema.nullable
    /\ ~schema.array

\* C16: in create mode the entity schema always has a top-level id property, typed
\* from the single identifier field and string for a compound identifier, and id is
\* in the top-level required list exactly when the model has a single identifier
\* field without a default value.
C16_CreateIdAlwaysPresent ==
    (EntityDone /\ EntityMode = "create") =>
        /\ EntitySchema.id # Undefined
        /\ IsPlainSchema(EntitySchema.id[1], ExpectedIdType)
        /\ ("id" \in Range(EntitySchema.required))
                <=> (Len(Ids) = 1 /\ ~Ids[1].hasDefault)

\* C17: in read and update mode the entity schema of every model has a top-level
\* id, its required list is exactly [id, type, attributes] in that order, and the
\* id schema is the mapped type of the single identifier field (integer for Int)
\* and string for a compound identifier.
C17_ReadUpdateIdRequired ==
    (EntityDone /\ EntityMode \in {"read", "update"}) =>
        /\ EntitySchema.required = <<"id", "type", "attributes">>
        /\ EntitySchema.id # Undefined
        /\ IsPlainSchema(EntitySchema.id[1], ExpectedIdType)

\* the update-mode schema of a model whose single identifier is an Int with a
\* default value
C17_Witness ==
    /\ EntityDone
    /\ EntityMode = "update"
    /\ Len(Ids) = 1
    /\ Ids[1].hasDefault
    /\ EntitySchema.id = Some(Schema("integer", ""))

\* the fields placed under attributes, in declaration order
AttributeFields ==
    SelectSeq(EntityModel.fields,
              LAMBDA f : f.name \in Range(AttributeNames) /\ ~isRelationshipField(f))

\* C18: attributes.required lists, in declaration order, in create mode exactly the
\* attribute fields that are not optional and have no default value, in read mode
\* every attribute field; in update mode the list is absent.
C18_AttributesRequired ==
    EntityDone =>
        /\ EntityMode = "create" =>
                AttributesRequired
                    = Names(SelectSeq(AttributeFields,
                                      LAMBDA f : ~f.optional /\ ~f.hasDefault))
        /\ EntityMode = "read" => AttributesRequired = Names(AttributeFields)
        /\ EntityMode = "update" => EntitySchema.attributes.required = Undefined
        /\ AttributeNames = Names(AttributeFields)

\* a create-mode schema with an attribute that is required and one that is not
C18_Witness ==
    /\ EntityDone
    /\ EntityMode = "create"
    /\ AttributesRequired # <<>>
    /\ \E i \in DOMAIN AttributeFields :
            /\ AttributeFields[i].hasDefault
            /\ AttributeFields[i].name \notin Range(AttributesRequired)
    /\ \E i \in DOMAIN AttributeFields :
            /\ AttributeFields[i].optional
            /\ AttributeFields[i].name \notin Range(AttributesRequired)

\* C19: of a compound identifier every component field is under attributes, subject
\* to the foreign-key rule (a foreign key is left out unless the mode is read); a
\* single identifier field is neither under attributes nor under relationships, in
\* any mode.
C19_IdentifierExposure ==
    EntityDone =>
        /\ Len(Ids) > 1 =>
                \A i \in DOMAIN Ids :
                    (Ids[i].name \in Range(AttributeNames))
                        <=> (~isForeignKeyField(Ids[i]) \/ EntityMode = "read")
        /\ Len(Ids) = 1 =>
                Ids[1].name \notin (Range(AttributeNames) \cup Range(RelationshipNames))

\* a compound identifier with a foreign-key component, in create mode: the other
\* component is an attribute, the foreign key is not
C19_Witness ==
    /\ EntityDone
    /\ EntityMode = "create"
    /\ Len(Ids) = 2
    /\ \E i, j \in DOMAIN Ids :
            /\ isForeignKeyField(Ids[i])
            /\ Ids[i].name \notin Range(AttributeNames)
            /\ ~isForeignKeyField(Ids[j])
            /\ Ids[j].name \in Range(AttributeNames)

ForeignKeys == {f \in Range(EntityModel.fields) : isForeignKeyField(f)}

\* C20: a foreign-key field is never under attributes of the create-mode and
\* update-mode schemas, and is under attributes of the read-mode schema unless it is
\* the single identifier of the model.
C20_ForeignKeyAttributes ==
    EntityDone =>
        \A f \in ForeignKeys :
            IF EntityMode = "read"
            THEN (f.name \in Range(AttributeNames)) <=> ~(isIdField(f) /\ Len(Ids) = 1)
            ELSE f.name \notin Range(AttributeNames)

\* an update-mode schema of a model with a foreign key next to another attribute
C20_Witness ==
    /\ EntityDone
    /\ EntityMode = "update"
    /\ \E f \in ForeignKeys : ~isIdField(f)
    /\ AttributeNames # <<>>

\* the relationship fields of the model, in declaration order
EntityRelationFields == SelectSeq(EntityModel.fields, isRelationshipField)

\* the component the claim names for a relationship field in a mode
ExpectedRelationshipRef(f, mode) ==
    CASE mode = "read" /\ f.array -> <<"_toManyRelationshipWithLinks">>
      [] mode = "read" /\ ~f.array -> <<"_toOneRelationshipWithLinks">>
      [] mode # "read" /\ f.array -> <<"_toManyRelationship">>
      [] OTHER -> <<"_toOneRelationship">>

\* C26: every relationship field of the model is under relationships of the entity
\* schema, in declaration order, as a $ref chosen by mode and cardinality
\* (_toOneRelationship / _toManyRelationship in create and update mode, the
\* WithLinks shapes in read mode) that is nullable exactly when the field is
\* optional; the schema has a relationships property if and only if the model has a
\* relationship field.
C26_RelationshipRefs ==
    EntityDone =>
        /\ (EntitySchema.relationships # Undefined) <=> (EntityRelationFields # <<>>)
        /\ RelationshipNames = Names(EntityRelationFields)
        /\ \A i \in DOMAIN EntityRelationFields :
            LET schema == EntitySchema.relationships[1][i].schema
            IN /\ schema.ref = ExpectedRelationshipRef(EntityRelationFields[i], EntityMode)
               /\ schema.nullable <=> EntityRelationFields[i].optional
               /\ ~schema.array

\* a read-mode schema with an optional to-one and a to-many relationship
C26_Witness ==
    /\ EntityDone
    /\ EntityMode = "read"
    /\ Len(EntityRelationFields) = 2
    /\ \E i, j \in DOMAIN EntityRelationFields :
        /\ EntityRelationFields[i].optional
        /\ EntitySchema.relationships[1][i].schema.nullable
        /\ EntitySchema.relationships[1][i].schema.ref = <<"_toOneRelationshipWithLinks">>
        /\ EntityRelationFields[j].array
        /\ EntitySchema.relationships[1][j].schema.ref = <<"_toManyRelationshipWithLinks">>

----------------------------------------------------------------------------
(* Properties of the paths and tags of the document *)

\* C21: for every included entity, the collection path /<entity> has exactly the
\* operations get and post (no put, patch or delete), and the item path
\* /<entity>/{id} has exactly get, put, patch and delete (no post).
C21_CollectionAndItemOperations ==
    Generated =>
        \A d \in Included :
            /\ EntityPath(d) \in DOMAIN paths
            /\ DOMAIN paths[EntityPath(d)] = {"get", "post"}
            /\ ItemPath(d) \in DOMAIN paths
            /\ DOMAIN paths[ItemPath(d)] = {"get", "put", "patch", "delete"}

\* a document of two included entities, one of them under a mapped name, with the
\* list and create operations on /myUser and the four item operations on /post/{id}
C21_Witness ==
    /\ pc = "done"
    /\ Cardinality(Included) = 2
    /\ options.modelNameMapping # NoMapping
    /\ <<"/">> \o MyUser \in DOMAIN paths
    /\ paths[<<"/">> \o MyUser]["get"].operationId = <<"list", "-">> \o User
    /\ paths[<<"/">> \o MyUser]["post"].operationId = <<"create", "-">> \o User
    /\ DOMAIN paths[<<"/", "p", "ost", "/", "{id}">>] = {"get", "put", "patch", "delete"}

\* the configured prefix without its trailing slash
StrippedPrefix ==
    LET pre == options.prefix
    IN CHOOSE p \in {SubSeq(pre, 1, n) : n \in 0..Len(pre)} :
           IF pre # <<>> /\ pre[Len(pre)] = "/" THEN pre = p \o <<"/">> ELSE pre = p

IsRemapped(d) ==
    /\ d.name \in DOMAIN options.modelNameMapping
    /\ options.modelNameMapping[d.name] # d.name

\* the URL segment of an entity: its mapped name when it has one, else its own
SegmentOf(d) ==
    lowerCaseFirst(IF d.name \in DOMAIN options.modelNameMapping
                   THEN options.modelNameMapping[d.name] ELSE d.name)

ExpectedBase(d) == StrippedPrefix \o <<"/">> \o SegmentOf(d)
OwnNameBase(d) == StrippedPrefix \o <<"/">> \o lowerCaseFirst(d.name)

\* key is base or lies below it
IsUnder(base, key) ==
    /\ IsPrefix(base, key)
    /\ Len(key) > Len(base) => key[Len(base) + 1] = "/"

\* C22: every path key generated for an entity (collection, item, related and
\* relationships paths) starts with the configured prefix with its trailing slash
\* stripped, followed by "/" and the lower-cased-first mapped name of the entity
\* (the modelNameMapping entry when present, otherwise the entity's own name); for
\* a remapped entity no path keyed by its original name is generated.
C22_PathsUnderPrefixAndMappedName ==
    Generated =>
        \A d \in Included :
            /\ ExpectedBase(d) \in DOMAIN paths
            /\ ExpectedBase(d) \o <<"/", "{id}">> \in DOMAIN paths
            /\ \A f \in RelationFields(d) :
                /\ ExpectedBase(d) \o <<"/", "{id}", "/">> \o f.name \in DOMAIN paths
                /\ ExpectedBase(d) \o <<"/", "{id}", "/", "relationships", "/">> \o f.name
                       \in DOMAIN paths
            /\ \A k \in DOMAIN paths :
                (\E m \in DOMAIN paths[k] : paths[k][m].tags = <<lowerCaseFirst(d.name)>>)
                    => IsUnder(ExpectedBase(d), k)
            /\ IsRemapped(d) => \A k \in DOMAIN paths : ~IsUnder(OwnNameBase(d), k)

\* the document of the prefix "/api/" and the mapping of User to myUser: the paths
\* of User are under /api/myUser, none is under /api/user or /api//myUser
C22_Witness ==
    /\ pc = "done"
    /\ options.prefix = <<"/api", "/">>
    /\ \E d \in Included :
        /\ d.name = User
        /\ IsRemapped(d)
        /\ <<"/api", "/", "m", "yUser", "/", "{id}", "/", "relationships", "/", "posts">>
               \in DOMAIN paths
        /\ <<"/api", "/", "u", "ser">> \notin DOMAIN paths
    /\ <<"/api", "/", "p", "ost", "/", "{id}", "/", "author">> \in DOMAIN paths

\* the number of included entities among the first j declarations
IncludedUpTo(j) == Cardinality({i \in 1..j : ~declarations[i].ignored})

\* the custom tag description of an entity, when it has one
HasTagDescription(d) == d.meta # Undefined /\ d.meta[1].tagDescription # Undefined

ExpectedTag(d) ==
    [name |-> lowerCaseFirst(d.name),
     description |-> IF HasTagDescription(d) THEN d.meta[1].tagDescription[1]
                     ELSE d.name \o <<" operations">>]

\* C23: the tags list of the written document has exactly one tag per included
\* entity, in included-entity order, whose name is the entity's lower-cased-first
\* name and whose description is the entity's custom tagDescription when set and
\* "<Entity> operations" otherwise.
C23_TagPerIncludedEntity ==
    output # Undefined =>
        LET tags == output[1].tags
        IN /\ Len(tags) = IncludedUpTo(Len(declarations))
           /\ \A j \in DOMAIN declarations :
               ~declarations[j].ignored => tags[IncludedUpTo(j)] = ExpectedTag(declarations[j])

\* the tags of the plugin test: User with the default description, then Post with
\* its own
C23_Witness ==
    /\ pc = "done"
    /\ output # Undefined
    /\ output[1].tags = <<[name |-> <<"u", "ser">>,
                           description |-> <<"U", "ser", " operations">>],
                          [name |-> <<"p", "ost">>,
                           description |-> PostRelatedOperations]>>

\* C29: every operation in the paths of the written document carries exactly one
\* tag, and that tag is the name of one of the tags of the document's tags list,
\* also when modelNameMapping remaps the URL segment of the entity.
C29_OperationTagsDeclared ==
    output # Undefined =>
        LET doc == output[1]
            declared == {doc.tags[i].name : i \in DOMAIN doc.tags}
        IN \A p \in Places(doc.paths) :
            LET op == doc.paths[p[1]][p[2]]
            IN Len(op.tags) = 1 /\ op.tags[1] \in declared

\* a written document with a remapped User: the operations under /myUser carry
\* the tag user, which the tags list declares
C29_Witness ==
    /\ pc = "done"
    /\ output # Undefined
    /\ options.modelNameMapping # NoMapping
    /\ <<"/">> \o MyUser \o <<"/", "{id}">> \in DOMAIN output[1].paths
    /\ output[1].paths[<<"/">> \o MyUser \o <<"/", "{id}">>]["delete"].tags = <<<<"u", "ser">>>>
    /\ \E i \in DOMAIN output[1].tags : output[1].tags[i].name = <<"u", "ser">>

\* the keys of the path items generatePathsForModel returns for an entity
PathKeysOf(d) ==
    DOMAIN generatePathsForModel([name |-> d.name], d, options, declarations)

\* C28: for any two distinct included entities and any modelNameMapping, the sets
\* of path keys generated for them are disjoint, so that the final paths object
\* holds every included entity's own collection and item operations and no
\* entity's path item is replaced by another entity's when the results are merged.
C28_PathKeysDisjoint ==
    Generated =>
        /\ \A d, e \in Included : d # e => PathKeysOf(d) \cap PathKeysOf(e) = {}
        /\ \A d \in Included :
            /\ paths[EntityPath(d)]["get"].operationId = <<"list", "-">> \o d.name
            /\ paths[ItemPath(d)]["delete"].operationId = <<"delete", "-">> \o d.name

====
